---- MODULE Spec2Model ----
(***************************************************************************)
(* Model of the periodic network-health monitor, network-monitor.py:       *)
(* class NetworkMonitor (three collectors, three CSV logs, the report      *)
(* aggregator) and the run loop main().                                    *)
(*                                                                         *)
(* Time is the wall clock in milliseconds.  A probe is an external call;   *)
(* its outcome (a value, a timeout, an exception) is chosen by the         *)
(* environment.  An operator interrupt (KeyboardInterrupt) may arrive at   *)
(* any position of the program; it is not a subclass of Exception, so no   *)
(* `except Exception` clause catches it.                                   *)
(***************************************************************************)
EXTENDS Integers, Sequences, FiniteSets, TLC

VARIABLES
    pc,            \* position of main(): see PcValues
    term,          \* how the process ended: "running", "normal", "uncaught"
    now,           \* wall clock, milliseconds
    cycle,         \* number of generate_report calls started
    faults,        \* number of non-nominal probe outcomes injected so far
    tgt,           \* check_ping: index in Targets of the next target
    results,       \* check_ping: the results dict, in insertion order
    ts,            \* generate_report: report['timestamp']
    pingRes,       \* generate_report: report['ping_tests']
    speedRes,      \* generate_report: report['speed_test']
    devRes,        \* generate_report: report['active_devices']
    report,        \* main: the value generate_report returned
    ping_file,     \* ping_history.csv
    speed_file,    \* speed_history.csv
    devices_file,  \* device_history.csv
    artifacts,     \* the report_*.json files: set of [name, content]
    out,           \* stdout: the lines printed since the current cycle began
    hist           \* history of the run (observations, not program state)

vars == <<pc, term, now, cycle, faults, tgt, results, ts, pingRes, speedRes,
          devRes, report, ping_file, speed_file, devices_file, artifacts,
          out, hist>>

(***************************************************************************)
(* Bounds of the model.                                                    *)
(***************************************************************************)
MaxCycles == 2
MaxFaults == 2

(***************************************************************************)
(* Constants of the program.                                               *)
(***************************************************************************)
DefaultCount == 4
PingTimeout == 1
ScanTimeout == 3
CycleInterval == 300
BackoffInterval == 60
MsPerSec == 1000
BitsPerMbit == 1000000

Targets == <<"192.168.1.1", "8.8.8.8", "1.1.1.1">>

PING_COLUMNS == <<"timestamp", "latency", "packet_loss">>
SPEED_COLUMNS == <<"timestamp", "download_mbps", "upload_mbps">>
DEVICE_COLUMNS == <<"timestamp", "device_ip", "device_mac", "status">>

(***************************************************************************)
(* Values.  Python floats are modelled as exact rationals [num, den] in    *)
(* lowest terms; None is the record NoneV; an error result is the dict     *)
(* {'error': text}.                                                        *)
(***************************************************************************)
RECURSIVE Gcd(_, _)
Gcd(a, b) == IF b = 0 THEN a ELSE Gcd(b, a % b)

Abs(x) == IF x < 0 THEN -x ELSE x

Rat(n, d) ==
    LET g == Gcd(Abs(n), d)
    IN  [num |-> n \div g, den |-> d \div g]

RatAdd(x, y) == Rat(x.num * y.den + y.num * x.den, x.den * y.den)
RatMul(x, y) == Rat(x.num * y.num, x.den * y.den)
RatDiv(x, y) == Rat(x.num * y.den, x.den * y.num)
RatInt(n) == [num |-> n, den |-> 1]

NoneV == [none |-> TRUE]
IsNone(v) == "none" \in DOMAIN v

ErrorDict(text) == [error |-> text]
HasError(d) == "error" \in DOMAIN d

RECURSIVE RatSum(_)
RatSum(s) == IF s = <<>> THEN RatInt(0) ELSE RatAdd(Head(s), RatSum(Tail(s)))

\* Whole milliseconds in x seconds.
Millis(x) == (x.num * MsPerSec) \div x.den

\* round(x, digits): the nearest multiple of 1/scale, ties to even.
Round(x, scale) ==
    LET n == x.num * scale
        q == n \div x.den
        r == n % x.den
        up == \/ 2 * r > x.den
              \/ 2 * r = x.den /\ q % 2 = 1
    IN  Rat(IF up THEN q + 1 ELSE q, scale)

(***************************************************************************)
(* Files.  A CSV log is [exists, header, rows]; to_csv(mode='a',           *)
(* header=False) adds rows at the end and touches nothing else.            *)
(***************************************************************************)
NoFile == [exists |-> FALSE, header |-> <<>>, rows |-> <<>>]

CreateCsv(columns) == [exists |-> TRUE, header |-> columns, rows |-> <<>>]

AppendRows(file, newRows) ==
    [exists |-> TRUE, header |-> file.header, rows |-> file.rows \o newRows]

\* The name of a report artifact: strftime('%Y%m%d_%H%M%S') keeps whole seconds.
\* Mutant of ReportName: a name too coarse to tell two cycles apart.
ReportName_coarse(t) == t \div (MsPerSec * MsPerSec)

ReportName(t) == t \div MsPerSec

\* Mutant of WriteArtifact: a report that holds an error is not saved.
WriteArtifact_clean_only(files, name, content) ==
    IF \/ HasError(content.speed_test)
       \/ HasError(content.active_devices)
       \/ \E i \in DOMAIN content.ping_tests : HasError(content.ping_tests[i].result)
    THEN files
    ELSE {f \in files : f.name # name} \cup {[name |-> name, content |-> content]}

WriteArtifact(files, name, content) ==
    {f \in files : f.name # name} \cup {[name |-> name, content |-> content]}

(***************************************************************************)
(* The environment: outcomes of the probe capabilities.                    *)
(***************************************************************************)
\* ping(target, timeout=1) returns the round trip in seconds, None on a
\* timeout, or raises.
Rtt10 == Rat(10, 1000)
Rtt11 == Rat(11, 1000)
Rtt12 == Rat(12, 1000)
Raise(text) == [raise |-> text]
IsRaise(r) == "raise" \in DOMAIN r
PingFault == Raise("ping: transport fault")

Responses == {Rtt10, Rtt11, Rtt12, NoneV, PingFault}
AllSamples == [1..DefaultCount -> Responses]

SampleOk == <<Rtt10, Rtt12, Rtt11, Rtt10>>
SampleLossy == <<Rtt10, Rtt12, Rtt11, NoneV>>
SampleDead == [i \in 1..DefaultCount |-> NoneV]
SampleFault == [i \in 1..DefaultCount |-> PingFault]
MainSamples == {SampleOk, SampleDead, SampleFault}

\* Speedtest: where the call raises ("none": it does not), the rates in bits/s
\* and the seconds a measurement takes.
SpeedOutcomes == {"none", "get_best_server", "upload"}
SpeedSample == [download |-> 93456000, upload |-> 11234000, seconds |-> 20]

\* srp: the number of answering devices, or -1 when it raises.
ScanOutcomes == {0, 2, -1}
Device(i) == [ip |-> <<192, 168, 1, i + 1>>, mac |-> <<0, 0, 0, 0, 0, i + 1>>,
              status |-> "active"]

(***************************************************************************)
(* check_ping, for one target.                                             *)
(***************************************************************************)
\* The probe loop: the latencies collected (milliseconds), the time it took,
\* and whether a probe raised (which leaves the try block at once).
RECURSIVE ProbeLoop(_, _, _)
ProbeLoop(sample, latencies, elapsed) ==
    IF sample = <<>>
    THEN [raised |-> FALSE, text |-> "", latencies |-> latencies, elapsed |-> elapsed]
    ELSE LET response_time == Head(sample)
         IN  IF IsRaise(response_time)
             THEN [raised |-> TRUE, text |-> response_time.raise,
                   latencies |-> latencies, elapsed |-> elapsed]
             ELSE IF IsNone(response_time)
             THEN ProbeLoop(Tail(sample), latencies, elapsed + PingTimeout * MsPerSec)
             ELSE ProbeLoop(Tail(sample),
                            Append(latencies, RatMul(response_time, RatInt(MsPerSec))),
                            elapsed + Millis(response_time))

\* Mutant of avg_latency: the mean is taken over the probes sent.
avg_latency_over_sent(latencies) == RatDiv(RatSum(latencies), RatInt(DefaultCount))

avg_latency(latencies) == RatDiv(RatSum(latencies), RatInt(Len(latencies)))

packet_loss(latencies, count) ==
    RatMul(RatDiv(RatInt(count - Len(latencies)), RatInt(count)), RatInt(100))

PingStats(latencies, count) ==
    IF latencies # <<>>
    THEN [latency |-> avg_latency(latencies),
          packet_loss |-> packet_loss(latencies, count)]
    ELSE [latency |-> NoneV, packet_loss |-> RatInt(100)]

\* What one pass of the loop over the targets does for a target whose probes
\* answer as in sample: the entry of results, the rows appended to the ping
\* log, and the time taken.
\* Mutant of PingOneTarget: a target whose probing raised gets a row too, with
\* null latency and a loss of 100.
PingOneTarget_error_row(sample, count, start) ==
    LET p == ProbeLoop(sample, <<>>, 0)
        stats == PingStats(p.latencies, count)
        t == start + p.elapsed
    IN  IF p.raised
        THEN [result |-> ErrorDict(p.text),
              rows |-> << <<t, NoneV, RatInt(100)>> >>, end |-> t]
        ELSE [result |-> stats,
              rows |-> << <<t, stats.latency, stats.packet_loss>> >>,
              end |-> t]

PingOneTarget(sample, count, start) ==
    LET p == ProbeLoop(sample, <<>>, 0)
        stats == PingStats(p.latencies, count)
        t == start + p.elapsed
    IN  IF p.raised
        THEN [result |-> ErrorDict(p.text), rows |-> <<>>, end |-> t]
        ELSE [result |-> stats,
              rows |-> << <<t, stats.latency, stats.packet_loss>> >>,
              end |-> t]

(***************************************************************************)
(* check_speed.                                                            *)
(***************************************************************************)
\* Mutant of SpeedCall: the row is written as soon as a rate is known, so a
\* failed upload leaves a download-only row.
SpeedCall_partial_row(outcome, start) ==
    LET download_speed == Rat(SpeedSample.download, BitsPerMbit)
        upload_speed == Rat(SpeedSample.upload, BitsPerMbit)
        t == start + SpeedSample.seconds * MsPerSec
    IN  IF outcome = "get_best_server"
        THEN [result |-> ErrorDict("speedtest: no server"), rows |-> <<>>, end |-> start]
        ELSE IF outcome = "upload"
        THEN [result |-> ErrorDict("speedtest: upload failed"),
              rows |-> << <<t, download_speed, NoneV>> >>, end |-> t]
        ELSE [result |-> [download_mbps |-> Round(download_speed, 100),
                          upload_mbps |-> Round(upload_speed, 100)],
              rows |-> << <<t, download_speed, upload_speed>> >>,
              end |-> t]

SpeedCall(outcome, start) ==
    LET download_speed == Rat(SpeedSample.download, BitsPerMbit)
        upload_speed == Rat(SpeedSample.upload, BitsPerMbit)
        t == start + SpeedSample.seconds * MsPerSec
    IN  IF outcome = "get_best_server"
        THEN [result |-> ErrorDict("speedtest: no server"), rows |-> <<>>, end |-> start]
        ELSE IF outcome = "upload"
        THEN [result |-> ErrorDict("speedtest: upload failed"), rows |-> <<>>, end |-> t]
        ELSE [result |-> [download_mbps |-> Round(download_speed, 100),
                          upload_mbps |-> Round(upload_speed, 100)],
              rows |-> << <<t, download_speed, upload_speed>> >>,
              end |-> t]

(***************************************************************************)
(* scan_network_devices.                                                   *)
(***************************************************************************)
\* A row of devices_df as to_csv(header=False) writes it: the values in the
\* order of the frame's columns, which are the keys of the device dicts, then
\* the column 'timestamp' that the assignment adds on the right.  Each value
\* is tagged with the column it comes from.
DeviceRow(d, t) ==
    << [ip |-> d.ip], [mac |-> d.mac], [status |-> d.status], [timestamp |-> t] >>

\* Mutant of ScanCall: a failed scan logs a placeholder row.
ScanCall_error_row(outcome, start) ==
    LET devices == [i \in 1..outcome |-> Device(i)]
        t == start + ScanTimeout * MsPerSec
    IN  IF outcome < 0
        THEN [result |-> ErrorDict("scan: no broadcast capability"),
              rows |-> << DeviceRow(Device(0), start) >>, end |-> start]
        ELSE [result |-> [list |-> devices],
              rows |-> [i \in 1..outcome |-> DeviceRow(devices[i], t)],
              end |-> t]

\* Mutant of ScanCall: a failed scan returns the empty list.
ScanCall_empty_on_error(outcome, start) ==
    LET devices == [i \in 1..outcome |-> Device(i)]
        t == start + ScanTimeout * MsPerSec
    IN  IF outcome < 0
        THEN [result |-> [list |-> <<>>], rows |-> <<>>, end |-> start]
        ELSE [result |-> [list |-> devices],
              rows |-> [i \in 1..outcome |-> DeviceRow(devices[i], t)],
              end |-> t]

ScanCall(outcome, start) ==
    LET devices == [i \in 1..outcome |-> Device(i)]
        t == start + ScanTimeout * MsPerSec
    IN  IF outcome < 0
        THEN [result |-> ErrorDict("scan: no broadcast capability"),
              rows |-> <<>>, end |-> start]
        ELSE [result |-> [list |-> devices],
              rows |-> [i \in 1..outcome |-> DeviceRow(devices[i], t)],
              end |-> t]

(***************************************************************************)
(* main: the summary printed after generate_report returned.  The result   *)
(* is the lines printed and the exception that ended the printing, if any. *)
(***************************************************************************)
IsList(v) == "list" \in DOMAIN v

RECURSIVE PrintPing(_, _)
PrintPing(items, lines) ==
    IF items = <<>>
    THEN [lines |-> lines, exc |-> "none"]
    ELSE LET target == Head(items).target
             res == Head(items).result
         IN  IF ~HasError(res)
             THEN IF IsNone(res.latency)
                  \* f"{None:.1f}": unsupported format string passed to NoneType
                  THEN [lines |-> lines, exc |-> "TypeError"]
                  ELSE PrintPing(Tail(items),
                           Append(lines, [kind |-> "ping", target |-> target,
                                          latency |-> Round(res.latency, 10),
                                          packet_loss |-> res.packet_loss]))
             ELSE PrintPing(Tail(items),
                      Append(lines, [kind |-> "ping error", target |-> target,
                                     error |-> res.error]))

PrintSpeed(speed_test) ==
    IF ~HasError(speed_test)
    THEN << [kind |-> "download", mbps |-> speed_test.download_mbps],
            [kind |-> "upload", mbps |-> speed_test.upload_mbps] >>
    ELSE << [kind |-> "speed error", error |-> speed_test.error] >>

PrintDevices(active_devices) ==
    IF IsList(active_devices)
    THEN << [kind |-> "devices", count |-> Len(active_devices.list)] >>
    ELSE << >>

PrintSummary(rep) ==
    LET head == << [kind |-> "title"], [kind |-> "time"], [kind |-> "ping section"] >>
    IN  IF "ping_tests" \notin DOMAIN rep
        THEN [lines |-> head, exc |-> "KeyError"]
        ELSE LET p == PrintPing(rep.ping_tests, head)
             IN  IF p.exc # "none"
                 THEN p
                 ELSE [lines |-> p.lines \o << [kind |-> "speed section"] >>
                                  \o PrintSpeed(rep.speed_test)
                                  \o PrintDevices(rep.active_devices)
                                  \o << [kind |-> "waiting"] >>,
                       exc |-> "none"]

(***************************************************************************)
(* generate_report and main: the pieces the actions are built from.        *)
(***************************************************************************)
\* Mutant of Report: a collector's error takes the place of the whole report.
Report_error_wins(timestamp, ping_tests, speed_test, active_devices) ==
    IF HasError(speed_test) \/ HasError(active_devices)
    THEN [timestamp |-> timestamp,
          ping_tests |-> [i \in DOMAIN ping_tests |->
                            [target |-> ping_tests[i].target,
                             result |-> ErrorDict("cycle failed")]],
          speed_test |-> ErrorDict("cycle failed"),
          active_devices |-> ErrorDict("cycle failed")]
    ELSE [timestamp |-> timestamp, ping_tests |-> ping_tests,
          speed_test |-> speed_test, active_devices |-> active_devices]

Report(timestamp, ping_tests, speed_test, active_devices) ==
    [timestamp |-> timestamp, ping_tests |-> ping_tests,
     speed_test |-> speed_test, active_devices |-> active_devices]

\* The clause of main's try statement that an exception of the summary leads
\* to: none raised, the loop sleeps; an Exception, it backs off.
AfterSummary(exc) == IF exc = "none" THEN "sleep" ELSE "backoff"

\* Mutant of WaitSecs: the handler waits as long as the try body does.
WaitSecs_same_everywhere(pos) == CycleInterval

\* The seconds main waits at a position.
WaitSecs(pos) == IF pos = "sleep" THEN CycleInterval ELSE BackoffInterval

\* Where a KeyboardInterrupt raised at a position of main ends up: inside the
\* try block `except KeyboardInterrupt` catches it and the loop breaks; the
\* constructor call and the `except Exception` handler (with its sleep(60))
\* are outside the try block, so there it leaves main uncaught.
\* Mutant of TryPositions: generate_report is called outside the try block.
TryPositions_without_report == {"loop", "summary", "sleep"}

TryPositions == {"loop", "ping", "speed", "scan", "save", "summary", "sleep"}
InterruptOutcome(pos) == IF pos \in TryPositions THEN "normal" ELSE "uncaught"

PcValues == TryPositions \cup {"init", "backoff", "exit"}

(***************************************************************************)
(* Initial states: the process starts on a storage directory that holds    *)
(* no logs, or logs of an earlier run.                                     *)
(***************************************************************************)
StartTime == 1000 * MsPerSec

OldLogs ==
    [ping |-> [exists |-> TRUE, header |-> PING_COLUMNS,
               rows |-> << <<0, NoneV, RatInt(100)>> >>],
     speed |-> [exists |-> TRUE, header |-> SPEED_COLUMNS,
                rows |-> << <<0, RatInt(90), RatInt(10)>> >>],
     devices |-> [exists |-> TRUE, header |-> DEVICE_COLUMNS,
                  rows |-> << DeviceRow(Device(1), 0) >>]]

NoLogs == [ping |-> NoFile, speed |-> NoFile, devices |-> NoFile]

Unset == [unset |-> TRUE]

InitHist(logs) ==
    [old |-> [ping |-> Len(logs.ping.rows), speed |-> Len(logs.speed.rows),
              devices |-> Len(logs.devices.rows)],
     sample |-> <<>>,      \* the answers of the probes of the last target
     probes |-> <<>>,      \* this cycle: per target probed, "ok" or "raise"
     speed |-> "-",        \* this cycle: "-" not called, "ok", "raise"
     scan |-> "-",         \* this cycle: "-" not called, "ok", "raise"
     found |-> 0,          \* this cycle: devices that answered the scan
     calls |-> [ping |-> 0, speed |-> 0, scan |-> 0],
                           \* this cycle: invocations of each collector
     foundTotal |-> 0,     \* devices that answered successful scans, all calls
     written |-> <<>>,     \* the artifacts written, in order: [name, content]
     pingTargets |-> 0,    \* targets check_ping went through, all calls
     pingRaised |-> 0,     \* targets whose probing raised, all calls
     pingCalls |-> 0,      \* check_ping calls that returned
     speedOk |-> 0,        \* check_speed calls that returned a result
     speedErr |-> 0,       \* check_speed calls that returned an error
     writes |-> 0,         \* report artifacts written
     writeFailed |-> 0,    \* report artifacts whose write raised
     returned |-> 0,       \* generate_report calls that returned
     summaries |-> 0,      \* summaries main finished or abandoned
     failed |-> FALSE,     \* the last cycle ended in `except Exception`
     cycleEnd |-> 0,       \* when the last cycle ended
     prevFailed |-> FALSE, \* `failed` of the cycle before the current one
     waited |-> 0,         \* time between that cycle's end and this one's start
     cancelAt |-> "none",  \* position at which the interrupt arrived
     snap |-> Unset]       \* logs and cycle count when it arrived

InitWith(logs, t) ==
    /\ pc = "init"
    /\ term = "running"
    /\ now = t
    /\ cycle = 0
    /\ faults = 0
    /\ tgt = 1
    /\ results = <<>>
    /\ ts = 0
    /\ pingRes = Unset
    /\ speedRes = Unset
    /\ devRes = Unset
    /\ report = Unset
    /\ ping_file = logs.ping
    /\ speed_file = logs.speed
    /\ devices_file = logs.devices
    /\ artifacts = {}
    /\ out = <<>>
    /\ hist = InitHist(logs)

Init == \E logs \in {NoLogs, OldLogs} : InitWith(logs, StartTime)

(***************************************************************************)
(* Actions.                                                                *)
(***************************************************************************)
Running == term = "running"

\* A run of the model injects at most `limit` probe outcomes other than the
\* nominal one.
Inject(limit, nominal) ==
    /\ nominal \/ faults < limit
    /\ faults' = IF nominal THEN faults ELSE faults + 1

\* The outcomes one cycle asks the environment for: one per target, the speed
\* test, the scan and the write of the artifact.
CycleOutcomes == Len(Targets) + 3

\* Mutant of initialize_csv_files: the header-only files are written whether
\* or not the logs exist.
initialize_csv_files_always ==
    /\ Running /\ pc = "init"
    /\ ping_file' = CreateCsv(PING_COLUMNS)
    /\ speed_file' = CreateCsv(SPEED_COLUMNS)
    /\ devices_file' = CreateCsv(DEVICE_COLUMNS)
    /\ pc' = "loop"
    /\ UNCHANGED <<term, now, cycle, faults, tgt, results, ts, pingRes, speedRes,
                   devRes, report, artifacts, out, hist>>

\* monitor = NetworkMonitor(): _initialize_csv_files writes a header-only file
\* for each log that does not exist.
initialize_csv_files ==
    /\ Running /\ pc = "init"
    /\ ping_file' = IF ~ping_file.exists THEN CreateCsv(PING_COLUMNS) ELSE ping_file
    /\ speed_file' = IF ~speed_file.exists THEN CreateCsv(SPEED_COLUMNS) ELSE speed_file
    /\ devices_file' = IF ~devices_file.exists THEN CreateCsv(DEVICE_COLUMNS)
                       ELSE devices_file
    /\ pc' = "loop"
    /\ UNCHANGED <<term, now, cycle, faults, tgt, results, ts, pingRes, speedRes,
                   devRes, report, artifacts, out, hist>>

\* main calls generate_report, which takes report['timestamp'] and calls
\* check_ping.
generate_report_enter(maxCycles) ==
    /\ Running /\ pc = "loop"
    /\ cycle < maxCycles
    /\ cycle' = cycle + 1
    /\ ts' = now
    /\ tgt' = 1
    /\ results' = <<>>
    /\ pingRes' = Unset /\ speedRes' = Unset /\ devRes' = Unset /\ report' = Unset
    /\ out' = <<>>
    /\ pc' = "ping"
    /\ hist' = [hist EXCEPT !.probes = <<>>, !.speed = "-", !.scan = "-",
                            !.found = 0, !.sample = <<>>,
                            !.calls = [ping |-> 0, speed |-> 0, scan |-> 0],
                            !.prevFailed = hist.failed,
                            !.waited = IF cycle = 0 THEN 0 ELSE now - hist.cycleEnd]
    /\ UNCHANGED <<term, now, faults, ping_file, speed_file, devices_file, artifacts>>

\* check_ping: one pass of the loop over the targets; after the last target
\* the call returns results to generate_report.
ping_target(sample) ==
    /\ Running /\ pc = "ping"
    /\ LET r == PingOneTarget(sample, DefaultCount, now)
           raised == \E i \in DOMAIN sample : IsRaise(sample[i])
           newResults == Append(results, [target |-> Targets[tgt], result |-> r.result])
           last == tgt = Len(Targets)
       IN  /\ now' = r.end
           /\ ping_file' = AppendRows(ping_file, r.rows)
           /\ results' = newResults
           /\ tgt' = IF last THEN 1 ELSE tgt + 1
           /\ pingRes' = IF last THEN newResults ELSE pingRes
           /\ pc' = IF last THEN "speed" ELSE "ping"
           /\ hist' = [hist EXCEPT
                         !.sample = sample,
                         !.calls.ping = IF tgt = 1 THEN @ + 1 ELSE @,
                         !.probes = Append(@, IF raised THEN "raise" ELSE "ok"),
                         !.pingTargets = @ + 1,
                         !.pingRaised = IF raised THEN @ + 1 ELSE @,
                         !.pingCalls = IF last THEN @ + 1 ELSE @]
    /\ UNCHANGED <<term, cycle, ts, speedRes, devRes, report, speed_file,
                   devices_file, artifacts, out>>

check_ping(limit) ==
    \E sample \in MainSamples :
        Inject(limit, sample = SampleOk) /\ ping_target(sample)

\* Mutant of check_speed: a failed speed test is tried again.
check_speed_retry(limit) ==
    \E outcome \in SpeedOutcomes :
        /\ Running /\ pc = "speed"
        /\ Inject(limit, outcome = "none")
        /\ LET r == SpeedCall(outcome, now)
               ok == ~HasError(r.result)
           IN  /\ now' = r.end
               /\ speed_file' = AppendRows(speed_file, r.rows)
               /\ speedRes' = r.result
               /\ hist' = [hist EXCEPT
                             !.speed = IF outcome = "none" THEN "ok" ELSE "raise",
                             !.calls.speed = @ + 1,
                             !.speedOk = IF ok THEN @ + 1 ELSE @,
                             !.speedErr = IF ok THEN @ ELSE @ + 1]
        /\ pc' = IF outcome = "none" THEN "scan" ELSE "speed"
        /\ UNCHANGED <<term, cycle, tgt, results, ts, pingRes, devRes, report,
                       ping_file, devices_file, artifacts, out>>

check_speed(limit) ==
    \E outcome \in SpeedOutcomes :
        /\ Running /\ pc = "speed"
        /\ Inject(limit, outcome = "none")
        /\ LET r == SpeedCall(outcome, now)
               ok == ~HasError(r.result)
           IN  /\ now' = r.end
               /\ speed_file' = AppendRows(speed_file, r.rows)
               /\ speedRes' = r.result
               /\ hist' = [hist EXCEPT
                             !.speed = IF outcome = "none" THEN "ok" ELSE "raise",
                             !.calls.speed = @ + 1,
                             !.speedOk = IF ok THEN @ + 1 ELSE @,
                             !.speedErr = IF ok THEN @ ELSE @ + 1]
        /\ pc' = "scan"
        /\ UNCHANGED <<term, cycle, tgt, results, ts, pingRes, devRes, report,
                       ping_file, devices_file, artifacts, out>>

scan_network_devices(limit) ==
    \E outcome \in ScanOutcomes :
        /\ Running /\ pc = "scan"
        /\ Inject(limit, outcome >= 0)
        /\ LET r == ScanCall(outcome, now)
           IN  /\ now' = r.end
               /\ devices_file' = AppendRows(devices_file, r.rows)
               /\ devRes' = r.result
               /\ hist' = [hist EXCEPT
                             !.scan = IF outcome >= 0 THEN "ok" ELSE "raise",
                             !.calls.scan = @ + 1,
                             !.foundTotal = IF outcome >= 0 THEN @ + outcome ELSE @,
                             !.found = IF outcome >= 0 THEN outcome ELSE 0]
        /\ pc' = "save"
        /\ UNCHANGED <<term, cycle, tgt, results, ts, pingRes, speedRes, report,
                       ping_file, speed_file, artifacts, out>>

\* generate_report: the report is assembled, the artifact is opened under the
\* name of the current second and written; an OSError of the write is caught
\* by generate_report's own handler, which returns {'error': ...}.
\* Mutant of generate_report_save: a failed save leaves the error value on disk.
generate_report_save_error_artifact(limit) ==
    \E written \in BOOLEAN :
        /\ Running /\ pc = "save"
        /\ Inject(limit, written)
        /\ LET rep == Report(ts, pingRes, speedRes, devRes)
           IN  /\ artifacts' = WriteArtifact(artifacts, ReportName(now),
                                            IF written THEN rep
                                            ELSE ErrorDict("report: cannot write"))
               /\ report' = IF written THEN rep
                            ELSE ErrorDict("report: cannot write")
        /\ hist' = [hist EXCEPT !.writes = IF written THEN @ + 1 ELSE @,
                                !.written =
                                    IF written
                                    THEN Append(@, [name |-> ReportName(now),
                                                    content |-> report'])
                                    ELSE @,
                                !.writeFailed = IF written THEN @ ELSE @ + 1,
                                !.returned = @ + 1]
        /\ pc' = "summary"
        /\ UNCHANGED <<term, now, cycle, tgt, results, ts, pingRes, speedRes,
                       devRes, ping_file, speed_file, devices_file, out>>

generate_report_save(limit) ==
    \E written \in BOOLEAN :
        /\ Running /\ pc = "save"
        /\ Inject(limit, written)
        /\ LET rep == Report(ts, pingRes, speedRes, devRes)
           IN  /\ artifacts' = IF written
                               THEN WriteArtifact(artifacts, ReportName(now), rep)
                               ELSE artifacts
               /\ report' = IF written THEN rep
                            ELSE ErrorDict("report: cannot write")
        /\ hist' = [hist EXCEPT !.writes = IF written THEN @ + 1 ELSE @,
                                !.written =
                                    IF written
                                    THEN Append(@, [name |-> ReportName(now),
                                                    content |-> report'])
                                    ELSE @,
                                !.writeFailed = IF written THEN @ ELSE @ + 1,
                                !.returned = @ + 1]
        /\ pc' = "summary"
        /\ UNCHANGED <<term, now, cycle, tgt, results, ts, pingRes, speedRes,
                       devRes, ping_file, speed_file, devices_file, out>>

\* main: the summary, up to the sleep of the try body or of the handler.
main_summary ==
    /\ Running /\ pc = "summary"
    /\ LET p == PrintSummary(report)
       IN  /\ out' = IF p.exc = "none" THEN p.lines
                     ELSE Append(p.lines, [kind |-> "main loop error", error |-> p.exc])
           /\ pc' = AfterSummary(p.exc)
           /\ hist' = [hist EXCEPT !.failed = p.exc # "none",
                                   !.cycleEnd = now,
                                   !.summaries = @ + 1]
    /\ UNCHANGED <<term, now, cycle, faults, tgt, results, ts, pingRes, speedRes,
                   devRes, report, ping_file, speed_file, devices_file, artifacts>>

\* time.sleep(300) of the try body returns: the loop starts over.
main_sleep ==
    /\ Running /\ pc = "sleep"
    /\ now' = now + WaitSecs("sleep") * MsPerSec
    /\ pc' = "loop"
    /\ UNCHANGED <<term, cycle, faults, tgt, results, ts, pingRes, speedRes,
                   devRes, report, ping_file, speed_file, devices_file, artifacts,
                   out, hist>>

\* time.sleep(60) of the `except Exception` handler returns: the loop starts over.
main_backoff ==
    /\ Running /\ pc = "backoff"
    /\ now' = now + WaitSecs("backoff") * MsPerSec
    /\ pc' = "loop"
    /\ UNCHANGED <<term, cycle, faults, tgt, results, ts, pingRes, speedRes,
                   devRes, report, ping_file, speed_file, devices_file, artifacts,
                   out, hist>>

\* Mutant of KeyboardInterrupt: the handler does not leave the loop.
KeyboardInterrupt_no_break ==
    /\ Running /\ pc # "exit"
    /\ hist.cancelAt = "none"
    /\ pc' = "loop"
    /\ out' = Append(out, [kind |-> "stopped by user"])
    /\ hist' = [hist EXCEPT !.cancelAt = pc,
                            !.snap = [cycle |-> cycle, ping |-> ping_file,
                                      speed |-> speed_file, devices |-> devices_file]]
    /\ UNCHANGED <<term, now, cycle, faults, tgt, results, ts, pingRes, speedRes,
                   devRes, report, ping_file, speed_file, devices_file, artifacts>>

\* The operator interrupts the process.
KeyboardInterrupt ==
    /\ Running /\ pc # "exit"
    /\ term' = InterruptOutcome(pc)
    /\ pc' = "exit"
    /\ out' = IF InterruptOutcome(pc) = "normal"
              THEN Append(out, [kind |-> "stopped by user"])
              ELSE Append(out, [kind |-> "traceback"])
    /\ hist' = [hist EXCEPT !.cancelAt = pc,
                            !.snap = [cycle |-> cycle, ping |-> ping_file,
                                      speed |-> speed_file, devices |-> devices_file]]
    /\ UNCHANGED <<now, cycle, faults, tgt, results, ts, pingRes, speedRes, devRes,
                   report, ping_file, speed_file, devices_file, artifacts>>

\* Runs of up to MaxCycles cycles with up to MaxFaults injected outcomes.
Next ==
    \/ initialize_csv_files
    \/ generate_report_enter(MaxCycles)
    \/ check_ping(MaxFaults)
    \/ check_speed(MaxFaults)
    \/ scan_network_devices(MaxFaults)
    \/ generate_report_save(MaxFaults)
    \/ main_summary
    \/ main_sleep
    \/ main_backoff
    \/ KeyboardInterrupt

Spec == Init /\ [][Next]_vars

\* The first cycle of a run, with every combination of probe outcomes.
NextCycle ==
    \/ initialize_csv_files
    \/ generate_report_enter(1)
    \/ check_ping(CycleOutcomes)
    \/ check_speed(CycleOutcomes)
    \/ scan_network_devices(CycleOutcomes)
    \/ generate_report_save(CycleOutcomes)
    \/ main_summary
    \/ main_sleep
    \/ main_backoff
    \/ KeyboardInterrupt

SpecCycle == Init /\ [][NextCycle]_vars

\* check_ping on its first target, with every sample of DefaultCount answers.
ping_any_sample ==
    \E sample \in AllSamples :
        /\ tgt = 1
        /\ ping_target(sample)
        /\ faults' = faults

NextPing ==
    \/ initialize_csv_files
    \/ generate_report_enter(1)
    \/ ping_any_sample

SpecPing == Init /\ [][NextPing]_vars

TypeOK ==
    /\ pc \in PcValues
    /\ term \in {"running", "normal", "uncaught"}
    /\ cycle \in 0..MaxCycles
    /\ faults \in 0..CycleOutcomes
    /\ tgt \in 1..Len(Targets)

(***************************************************************************)
(* The run loop.                                                           *)
(***************************************************************************)
\* C1: a cycle that raises an unexpected error (generate_report returned an
\* error, or any Exception left the try body) does not end the loop: main goes
\* to the backoff wait, the only step the program takes from there is to start
\* over after 60 time-units, and a cycle that follows a failed cycle began 60,
\* not 300, time-units after it.
C1_FailedCycleBacksOff ==
    [][ /\ (pc = "summary" /\ pc' # "exit" /\ (hist'.failed \/ HasError(report)))
              => (pc' = "backoff" /\ term' = "running")
        /\ (pc = "backoff" /\ hist'.cancelAt = "none")
              => (pc' = "loop" /\ term' = "running" /\ now' = now + 60 * MsPerSec)
        /\ (cycle' = cycle + 1 /\ hist.failed)
              => (hist'.waited = 60 * MsPerSec /\ hist'.waited # 300 * MsPerSec)
      ]_vars

C1_Witness ==
    /\ cycle = 2
    /\ hist.prevFailed
    /\ hist.waited = 60 * MsPerSec

\* C2: an operator interrupt delivered at any position of the run loop (in a
\* cycle, in the 300-unit sleep, in the 60-unit backoff sleep) leaves the loop
\* by its normal exit, never by an uncaught exception.
C2_InterruptLeavesCleanly ==
    hist.cancelAt \in TryPositions \cup {"backoff"}
        => (pc = "exit" /\ term = "normal")

\* C3: after a cancellation signalled in the sleep phase no further cycle is
\* started and the three logs hold exactly the rows they held when it arrived.
C3_CancelInSleepKeepsLogs ==
    hist.cancelAt \in {"sleep", "backoff"}
        => /\ pc = "exit"
           /\ cycle = hist.snap.cycle
           /\ ping_file = hist.snap.ping
           /\ speed_file = hist.snap.speed
           /\ devices_file = hist.snap.devices

C3_Witness ==
    /\ hist.cancelAt = "sleep"
    /\ pc = "exit"
    /\ Len(ping_file.rows) > hist.old.ping
    /\ Len(speed_file.rows) > hist.old.speed

(***************************************************************************)
(* generate_report and the collectors.                                     *)
(***************************************************************************)
\* The report generate_report has assembled or returned, field by field,
\* against what the probes of the cycle did.
C4_FieldMatchesProbe(ping_tests, speed_test, active_devices) ==
    /\ Len(ping_tests) = Len(Targets)
    /\ \A i \in 1..Len(Targets) :
          /\ ping_tests[i].target = Targets[i]
          /\ HasError(ping_tests[i].result) <=> hist.probes[i] = "raise"
          /\ hist.probes[i] = "ok" =>
                DOMAIN ping_tests[i].result = {"latency", "packet_loss"}
    /\ HasError(speed_test) <=> hist.speed = "raise"
    /\ hist.speed = "ok" => DOMAIN speed_test = {"download_mbps", "upload_mbps"}
    /\ HasError(active_devices) <=> hist.scan = "raise"
    /\ hist.scan = "ok" =>
          (IsList(active_devices) /\ Len(active_devices.list) = hist.found)

\* C4: whatever combination of the three probe capabilities fails in a cycle,
\* generate_report invokes all three collectors, and the Report holds for each
\* collector its data if its probe succeeded and an error marker if it raised.
C4_CollectorsIsolated ==
    /\ pc = "save" =>
          /\ Len(hist.probes) = Len(Targets) /\ hist.speed # "-" /\ hist.scan # "-"
          /\ C4_FieldMatchesProbe(pingRes, speedRes, devRes)
    /\ (pc \in {"summary", "sleep", "backoff"} /\ ~HasError(report)) =>
          /\ Len(hist.probes) = Len(Targets) /\ hist.speed # "-" /\ hist.scan # "-"
          /\ C4_FieldMatchesProbe(report.ping_tests, report.speed_test,
                                  report.active_devices)

C4_Witness ==
    /\ pc = "summary"
    /\ ~HasError(report)
    /\ hist.probes = <<"raise", "ok", "raise">>
    /\ hist.speed = "ok"
    /\ hist.scan = "raise"
    /\ ~HasError(report.speed_test)
    /\ ~HasError(report.ping_tests[2].result)

\* C5: the data rows of the speed log are as many as the check_speed calls that
\* returned a result; a call that returned an error (also one whose download
\* succeeded and whose upload failed) appended none.
C5_SpeedRowsAreSuccesses ==
    Len(speed_file.rows) = hist.old.speed + hist.speedOk

C5_Witness ==
    /\ pc = "scan"
    /\ hist.speedOk = 1
    /\ speedRes = ErrorDict("speedtest: upload failed")
    /\ Len(speed_file.rows) = hist.old.speed + 1

\* The successful answers of a sample, and their sum in milliseconds.
C6_Succeeded(sample) == {i \in DOMAIN sample : ~IsNone(sample[i])}

RECURSIVE C6_SumMs(_)
C6_SumMs(sample) ==
    IF sample = <<>> THEN 0
    ELSE (IF IsNone(Head(sample)) THEN 0
          ELSE (Head(sample).num * 1000) \div Head(sample).den)
         + C6_SumMs(Tail(sample))

\* C6: for a sample of n probes of which k succeed (none raising), check_ping
\* gives packet_loss = (n-k)/n*100 and latency = the mean of the k successful
\* latencies when k > 0, and latency = null with packet_loss = 100 when k = 0;
\* packet_loss = 100 and latency = null hold together iff k = 0; latencies of
\* 10, 12, 11 and one timeout give latency 11 and loss 25.
C6_PingStatistics ==
    (Len(results) = 1 /\ \A i \in DOMAIN hist.sample : ~IsRaise(hist.sample[i])) =>
        LET n == Len(hist.sample)
            k == Cardinality(C6_Succeeded(hist.sample))
            r == results[1].result
        IN  /\ n = 4
            /\ r.packet_loss.num * n = (n - k) * 100 * r.packet_loss.den
            /\ k > 0 => r.latency.num * k = C6_SumMs(hist.sample) * r.latency.den
            /\ k = 0 => (IsNone(r.latency) /\ r.packet_loss = RatInt(100))
            /\ (IsNone(r.latency) /\ r.packet_loss = RatInt(100)) <=> k = 0
            /\ hist.sample = SampleLossy =>
                  (r.latency = RatInt(11) /\ r.packet_loss = RatInt(25))

C6_Witness ==
    /\ Len(results) = 1
    /\ hist.sample = SampleLossy
    /\ results[1].result = [latency |-> RatInt(11), packet_loss |-> RatInt(25)]

\* C7: every cycle writes one report artifact, whichever collectors failed:
\* each generate_report call that returned has written one artifact, unless
\* the write itself raised; the artifact holds the report that call returned.
C7_OneArtifactPerCycle ==
    /\ Cardinality(artifacts) + hist.writeFailed = hist.returned
    /\ hist.writes + hist.writeFailed = hist.returned
    /\ (pc \in {"summary", "sleep", "backoff"} /\ ~HasError(report)) =>
          \E f \in artifacts : f.content = report
    /\ pc \in {"loop", "sleep", "backoff"} => hist.returned = cycle

C7_Witness ==
    /\ pc = "sleep"
    /\ cycle = 2
    /\ hist.returned = 2
    /\ Cardinality(artifacts) = 2
    /\ HasError(report.speed_test)
    /\ HasError(report.active_devices)

\* A summary with its three sections: a line for every target, the rates or
\* the error of the speed test, and the line of the devices.
C8_Kinds(lines) == {lines[i].kind : i \in DOMAIN lines}

C8_Complete(lines) ==
    /\ "ping section" \in C8_Kinds(lines)
    /\ Cardinality({i \in DOMAIN lines : lines[i].kind \in {"ping", "ping error"}})
          = Len(Targets)
    /\ "speed section" \in C8_Kinds(lines)
    /\ C8_Kinds(lines) \cap {"download", "speed error"} # {}
    /\ "devices" \in C8_Kinds(lines)

\* C8: after every cycle the summary is complete, however many measurements of
\* the cycle failed.
C8_SummaryAfterEveryCycle ==
    pc \in {"sleep", "backoff"} => C8_Complete(out)

\* C9: a cycle in which every collector returned data or an error value (a
\* target with packet_loss = 100 and null latency included) and generate_report
\* returned its Report is followed by the normal wait of 300 time-units; the
\* 60-unit backoff is used only after a cycle-level failure.
C9_NormalWaitAfterReport ==
    (pc \in {"sleep", "backoff"} /\ ~HasError(report)) => pc = "sleep"

\* C10: every check_ping call appends one row per target to the ping log, also
\* for a target whose probing raised.
C10_RowPerTarget ==
    Len(ping_file.rows) = hist.old.ping + hist.pingTargets

\* C10 as amended: check_ping appends one row for every target whose probing
\* did not raise (a target with no successful probe gets null latency and a
\* loss of 100) and none for a target whose probing raised, which gets an
\* error marker in the results only.
C10_RowPerAnsweringTarget ==
    /\ Len(ping_file.rows) = hist.old.ping + hist.pingTargets - hist.pingRaised
    /\ \A i \in DOMAIN results :
          hist.probes[i] = "raise" <=> HasError(results[i].result)

C10_Witness ==
    /\ pc = "speed"
    /\ hist.probes = <<"ok", "raise", "ok">>
    /\ Len(ping_file.rows) = hist.old.ping + 2
    /\ ping_file.rows[Len(ping_file.rows)][2] = NoneV

(***************************************************************************)
(* The logs and the artifacts.                                             *)
(***************************************************************************)
\* The content of a log before a step is a prefix of its content after it.
C11_Extends(before, after) ==
    /\ before.exists => (after.exists /\ after.header = before.header)
    /\ Len(before.rows) <= Len(after.rows)
    /\ \A i \in 1..Len(before.rows) : after.rows[i] = before.rows[i]

\* C11: each of the three logs is append-only over every step of every run
\* (construction on a directory that already holds logs, cycles with any mix
\* of failures, backoff retries, cancellation): no row and no header is ever
\* rewritten, reordered or removed.
C11_LogsAppendOnly ==
    [][ /\ C11_Extends(ping_file, ping_file')
        /\ C11_Extends(speed_file, speed_file')
        /\ C11_Extends(devices_file, devices_file')
      ]_vars

C11_Witness ==
    /\ cycle = 2
    /\ pc = "save"
    /\ hist.old.ping = 1
    /\ hist.prevFailed
    /\ Len(ping_file.rows) > 4
    /\ Len(speed_file.rows) = 3
    /\ Len(devices_file.rows) > 3
    /\ ping_file.rows[1] = OldLogs.ping.rows[1]
    /\ speed_file.rows[1] = OldLogs.speed.rows[1]
    /\ devices_file.rows[1] = OldLogs.devices.rows[1]

(***************************************************************************)
(* Device discovery and the summary's errors.                              *)
(***************************************************************************)
\* C12: a device discovery that fails as a whole call gives the Report an
\* error value, which differs from the value of a successful scan that found
\* no device (the empty list); main tells the two apart as well, printing the
\* device count for a list only.
C12_ScanErrorIsNotEmptyList ==
    /\ pc \in {"save", "summary", "sleep", "backoff"} =>
          /\ hist.scan = "raise" =>
                (HasError(devRes) /\ ~IsList(devRes) /\ devRes # [list |-> <<>>])
          /\ (hist.scan = "ok" /\ hist.found = 0) =>
                (devRes = [list |-> <<>>] /\ ~HasError(devRes))
    /\ (pc \in {"summary", "sleep", "backoff"} /\ ~HasError(report)) =>
          report.active_devices = devRes
    /\ pc = "sleep" =>
          (hist.scan = "ok" <=> \E i \in DOMAIN out : out[i].kind = "devices")

C12_Witness ==
    /\ cycle = 2
    /\ pc = "sleep"
    /\ hist.scan = "raise"
    /\ HasError(report.active_devices)
    /\ \E f \in artifacts : f.content.active_devices = [list |-> <<>>]

\* The lines of a summary that carry an error text.
C13_ErrorLines(lines, kind) ==
    {i \in DOMAIN lines : lines[i].kind = kind}

\* C13: the summary of a cycle carries the error of every measurement that
\* failed in it: a line for each target whose ping errored, a line for the
\* speed-test error and a line for the device-discovery error.  Stated for the
\* cycles whose summary is printed to its end.
C13_ErrorsSurfaced ==
    pc = "sleep" =>
        /\ \A t \in DOMAIN report.ping_tests :
              HasError(report.ping_tests[t].result) =>
                 \E i \in C13_ErrorLines(out, "ping error") :
                    /\ out[i].target = report.ping_tests[t].target
                    /\ out[i].error = report.ping_tests[t].result.error
        /\ HasError(report.speed_test) =>
              \E i \in C13_ErrorLines(out, "speed error") :
                 out[i].error = report.speed_test.error
        /\ HasError(report.active_devices) =>
              \E i \in C13_ErrorLines(out, "devices error") :
                 out[i].error = report.active_devices.error

\* C14: every data row of the device log has its values in the order of the
\* header, {timestamp, device_ip, device_mac, status}.  Stated for the rows
\* appended in the run.
C14_DeviceRowInHeaderOrder ==
    devices_file.exists =>
        /\ devices_file.header = DEVICE_COLUMNS
        /\ \A i \in (hist.old.devices + 1)..Len(devices_file.rows) :
              LET row == devices_file.rows[i]
              IN  /\ Len(row) = Len(DEVICE_COLUMNS)
                  /\ DOMAIN row[1] = {"timestamp"}
                  /\ DOMAIN row[2] = {"ip"}
                  /\ DOMAIN row[3] = {"mac"}
                  /\ DOMAIN row[4] = {"status"}

(***************************************************************************)
(* Cancellation inside a cycle.                                            *)
(***************************************************************************)
\* The positions of main inside a generate_report call.
C15_InCycle == {"ping", "speed", "scan", "save"}

\* The cycle in progress ran to its end: every collector was invoked and the
\* artifact of the cycle is there.
C15_CycleComplete ==
    /\ hist.calls = [ping |-> 1, speed |-> 1, scan |-> 1]
    /\ Len(hist.probes) = Len(Targets)
    /\ \E f \in artifacts : f.content.timestamp = ts

\* C15: an operator interrupt that arrives while a cycle is running does not
\* abort the cycle: the cycle runs to completion (all three collectors invoked,
\* the artifact written) before the loop exits, so the loop never exits with a
\* partial cycle.
C15_InterruptWaitsForCycle ==
    hist.cancelAt \in C15_InCycle => C15_CycleComplete

\* C15 as amended: an interrupt that arrives while a cycle is running ends the
\* cycle at once: the loop leaves by its normal exit, the collectors not yet
\* reached are not invoked, generate_report does not return and writes no
\* artifact for the cycle, and the rows the cycle had appended stay in the
\* logs.
C15_InterruptAbortsCycle ==
    hist.cancelAt \in C15_InCycle =>
        /\ pc = "exit" /\ term = "normal"
        /\ hist.returned = cycle - 1
        /\ report = Unset
        /\ ~ \E f \in artifacts : f.content.timestamp = ts
        /\ Len(hist.probes) < Len(Targets) => hist.calls.speed = 0
        /\ hist.cancelAt \in {"ping", "speed"} => hist.calls.speed = 0
        /\ hist.cancelAt \in {"ping", "speed", "scan"} => hist.calls.scan = 0
        /\ ping_file = hist.snap.ping
        /\ speed_file = hist.snap.speed
        /\ devices_file = hist.snap.devices
        /\ Len(ping_file.rows) =
              hist.old.ping + hist.pingTargets - hist.pingRaised

C15_Witness ==
    /\ hist.cancelAt = "scan"
    /\ pc = "exit"
    /\ term = "normal"
    /\ cycle = 1
    /\ artifacts = {}
    /\ Len(ping_file.rows) = hist.old.ping + 3
    /\ Len(speed_file.rows) = hist.old.speed + 1

(***************************************************************************)
(* The device log.                                                         *)
(***************************************************************************)
\* C16: a device-discovery call that succeeds with d devices appends exactly d
\* rows to the device log, one per device of the returned list and in its
\* order; a call that fails appends nothing.
C16_RowPerDevice ==
    [][(pc = "scan" /\ pc' = "save") =>
          LET before == Len(devices_file.rows)
              n == Len(devices_file'.rows) - before
          IN  IF HasError(devRes')
              THEN /\ hist'.scan = "raise"
                   /\ devices_file' = devices_file
              ELSE /\ hist'.scan = "ok"
                   /\ n = hist'.found
                   /\ n = Len(devRes'.list)
                   /\ SubSeq(devices_file'.rows, 1, before) = devices_file.rows
                   /\ \A i \in 1..n :
                         LET row == devices_file'.rows[before + i]
                         IN  \E j \in DOMAIN row :
                                 /\ DOMAIN row[j] = {"ip"}
                                 /\ row[j].ip = devRes'.list[i].ip]_vars

C16_Witness ==
    /\ cycle = 2
    /\ pc = "save"
    /\ hist.scan = "raise"
    /\ HasError(devRes)
    /\ hist.foundTotal = 2
    /\ Len(devices_file.rows) = hist.old.devices + 2

(***************************************************************************)
(* The report artifacts.                                                   *)
(***************************************************************************)
\* C17: the instant encoded in an artifact's file name is the instant of the
\* 'timestamp' field stored in that artifact, cut to the second, whatever time
\* the collectors' probes took.
C17_NameIsReportTimestamp ==
    \A f \in artifacts : f.name = ReportName(f.content.timestamp)

\* C18: every artifact ever written is still there under its name and still
\* holds the Report of the cycle that wrote it: no later cycle writes to the
\* name of an earlier one.
C18_ArtifactsImmutable ==
    /\ \A i \in DOMAIN hist.written : hist.written[i] \in artifacts
    /\ \A i, j \in DOMAIN hist.written :
          i # j => hist.written[i].name # hist.written[j].name
    /\ Cardinality(artifacts) = Len(hist.written)

C18_Witness ==
    /\ Len(hist.written) = 2
    /\ hist.written[1].content.timestamp < hist.written[2].content.timestamp
    /\ hist.written[1] \in artifacts
    /\ hist.written[2] \in artifacts

(***************************************************************************)
(* One cycle at a time, one invocation per collector.                      *)
(***************************************************************************)
\* C19: cycles do not overlap and nothing is retried inside a cycle: while
\* cycle N is inside generate_report all earlier cycles' calls have returned
\* and each collector has been invoked at most once, in the order of the
\* call; once the call has returned each collector has been invoked exactly
\* once, whether it succeeded or failed; and a new cycle starts only from the
\* top of the loop, after the previous call has returned.
C19_OneCycleOneCallEach ==
    /\ hist.calls.ping <= 1 /\ hist.calls.speed <= 1 /\ hist.calls.scan <= 1
    /\ pc \in {"ping", "speed", "scan", "save"} => hist.returned = cycle - 1
    /\ pc = "ping" =>
          hist.calls = [ping |-> IF Len(hist.probes) > 0 THEN 1 ELSE 0,
                        speed |-> 0, scan |-> 0]
    /\ pc = "speed" => hist.calls = [ping |-> 1, speed |-> 0, scan |-> 0]
    /\ pc = "scan" => hist.calls = [ping |-> 1, speed |-> 1, scan |-> 0]
    /\ pc = "save" => hist.calls = [ping |-> 1, speed |-> 1, scan |-> 1]
    /\ pc \in {"summary", "sleep", "backoff"} =>
          /\ hist.returned = cycle
          /\ hist.calls = [ping |-> 1, speed |-> 1, scan |-> 1]
    /\ pc = "loop" =>
          /\ hist.returned = cycle
          /\ cycle > 0 => hist.calls = [ping |-> 1, speed |-> 1, scan |-> 1]
    /\ hist.pingCalls \in {hist.returned, hist.returned + 1}
    /\ hist.speedOk + hist.speedErr \in {hist.returned, hist.returned + 1}

C19_Witness ==
    /\ cycle = 2
    /\ pc = "summary"
    /\ hist.returned = 2
    /\ hist.speed = "raise"
    /\ hist.scan = "raise"
    /\ hist.calls = [ping |-> 1, speed |-> 1, scan |-> 1]

(***************************************************************************)
(* Order of the side effects of a cycle.                                   *)
(***************************************************************************)
\* The fields of a Report.
C20_ReportFields == {"timestamp", "ping_tests", "speed_test", "active_devices"}

====
